---- MODULE Spec2Model ----
(***************************************************************************)
(* Access decision layer of squiggy (squiggy/api/api_util.py): the request *)
(* guards, the asset / whiteboard predicates, the type-enum filters and    *)
(* start_login_session, as a state machine over the ambient state they     *)
(* read (configuration flag, session user, database tables, registries).  *)
(***************************************************************************)
EXTENDS Integers, Sequences, FiniteSets, TLC

VARIABLES
    config,                    \* app.config
    current_user,              \* flask_login's current_user (a LoginSession)
    users,                     \* table users: rows [id, canvas_course_role]
    whiteboards,               \* table whiteboards: rows [id, course_id, deleted_at]
    whiteboard_users,          \* table whiteboard_users: rows [whiteboard_id, user_id]
    canvas,                    \* table canvas: rows [canvas_api_domain, supports_custom_messaging]
    activities_type,           \* activities_type.enums
    assets_type,               \* assets_type.enums
    call,                      \* the call being served: operation and arguments
    last                       \* the call served: operation, arguments, outcome

vars == <<config, current_user, users, whiteboards,
          whiteboard_users, canvas, activities_type, assets_type, call, last>>

\* app.config['FEATURE_FLAG_WHITEBOARDS']
FEATURE_FLAG_WHITEBOARDS == config.FEATURE_FLAG_WHITEBOARDS

(***************************************************************************)
(* Bounds of the model.                                                    *)
(***************************************************************************)
NumCourses == 2
MaxUserId == 2
MaxAssetId == 2
MaxWhiteboardId == 1
MaxEnums == 2

(***************************************************************************)
(* Python values that may be None are tagged with their type, so that      *)
(* truthiness and equality are computed as Python computes them.           *)
(***************************************************************************)
None == [type |-> "NoneType"]
PyInt(n) == [type |-> "int", value |-> n]
PyStr(s) == [type |-> "str", value |-> s]

\* bool(v): None, 0 and '' are falsy; objects are truthy.
Truthy(v) ==
    CASE v.type = "NoneType" -> FALSE
      [] v.type = "int" -> v.value # 0
      [] v.type = "str" -> v.value # ""
      [] OTHER -> TRUE

\* str(v), as used by the f-strings and the cookie values.
Str(v) ==
    CASE v.type = "NoneType" -> "None"
      [] v.type = "int" -> ToString(v.value)
      [] v.type = "bool" -> IF v.value THEN "True" ELSE "False"
      [] OTHER -> v.value

Range(s) == {s[i] : i \in DOMAIN s}

CourseIds == 1..NumCourses
AssetIds == 1..MaxAssetId
\* Values a session's user_id can hold: a primary key, 0, or None.
UserKeys == {PyInt(i) : i \in 1..MaxUserId}
UserIdValues == UserKeys \cup {PyInt(0), None}
WhiteboardKeys == {PyInt(i) : i \in 1..MaxWhiteboardId}
\* whiteboardId values a request can carry: stored ids, one unknown id, None.
WhiteboardIdValues == {PyInt(i) : i \in 1..(MaxWhiteboardId + 1)} \cup {None}

(***************************************************************************)
(* Objects.  A User row exposes .id, a LoginSession exposes .user_id; both *)
(* expose .course.id, .is_admin and .is_teaching.  User.assets and         *)
(* LoginSession.user.assets are the owned assets.                          *)
(***************************************************************************)
AssetLists == {{}, {[id |-> a] : a \in AssetIds}} \cup {{[id |-> a]} : a \in AssetIds}

UserObjects ==
    [type : {"User"}, id : UserKeys, course : [id : CourseIds],
     is_admin : BOOLEAN, is_teaching : BOOLEAN,
     assets : {{}, {[id |-> a] : a \in AssetIds}}]

LoginSessions ==
    [type : {"LoginSession"}, user_id : UserIdValues, course : [id : CourseIds],
     is_admin : BOOLEAN, is_teaching : BOOLEAN, is_authenticated : BOOLEAN,
     user : [assets : AssetLists]]

\* The user argument of the predicates: a User, a LoginSession, or None.
UserArgs ==
    UserObjects
    \cup {s \in LoginSessions : s.is_authenticated /\ s.user.assets = {}}
    \cup {None}

Assets ==
    [id : AssetIds, course_id : CourseIds, visible : BOOLEAN,
     users : SUBSET {[id |-> k] : k \in UserKeys}]

(***************************************************************************)
(* Outcome of a call: a returned value, or a raised exception.             *)
(***************************************************************************)
Returned(v) == [raised |-> "none", value |-> v]
Raised(e) == [raised |-> e]
ReturnedTrue(o) == o.raised = "none" /\ o.value = TRUE
ReturnedFalse(o) == o.raised = "none" /\ o.value = FALSE

(***************************************************************************)
(* squiggy.lib.util                                                        *)
(***************************************************************************)
is_admin(user) == Truthy(user) /\ user.is_admin

is_teaching(user) == Truthy(user) /\ user.is_teaching

(***************************************************************************)
(* _get_user_id: user and (user.id if hasattr(user, 'id') else user.user_id) *)
(***************************************************************************)
hasattr(obj, name) == name \in DOMAIN obj

get_user_id_ignores_user_id(user) ==
    IF ~Truthy(user) THEN user
    ELSE IF hasattr(user, "id") THEN user.id ELSE None

_get_user_id(user) ==
    IF ~Truthy(user) THEN user
    ELSE IF hasattr(user, "id") THEN user.id ELSE user.user_id

(***************************************************************************)
(* can_update_asset                                                        *)
(***************************************************************************)
can_update_asset_no_course_check(user, asset) ==
    LET user_id == _get_user_id(user)
        user_ids == {u.id : u \in asset.users}
    IN  IF ~Truthy(user) THEN Raised("AttributeError")
        ELSE Returned(is_teaching(user) \/ is_admin(user) \/ user_id \in user_ids)

can_update_asset(user, asset) ==
    LET user_id == _get_user_id(user)
        user_ids == {u.id : u \in asset.users}
    IN  IF ~Truthy(user) THEN Raised("AttributeError")  \* None.course
        ELSE Returned(/\ user.course.id = asset.course_id
                      /\ (is_teaching(user) \/ is_admin(user) \/ user_id \in user_ids))

(***************************************************************************)
(* can_view_asset: the last test reads the ambient current_user, not user. *)
(***************************************************************************)
OwnAssets(user) == IF hasattr(user, "assets") THEN user.assets ELSE user.user.assets

can_view_asset_own_assets(asset, user) ==
    IF Truthy(user) /\ user.is_admin THEN Returned(TRUE)
    ELSE IF ~Truthy(user) \/ user.course.id # asset.course_id THEN Returned(FALSE)
    ELSE Returned(asset.visible \/ asset.id \in {a.id : a \in OwnAssets(user)})

can_view_asset(asset, user) ==
    IF Truthy(user) /\ user.is_admin THEN Returned(TRUE)
    ELSE IF ~Truthy(user) \/ user.course.id # asset.course_id THEN Returned(FALSE)
    ELSE Returned(asset.visible \/ asset.id \in {a.id : a \in current_user.user.assets})

(***************************************************************************)
(* Strings whose characters matter (role names, type tags) are sequences   *)
(* of characters.                                                          *)
(***************************************************************************)
UpperCase == <<"A","B","C","D","E","F","G","H","I","J","K","L","M",
               "N","O","P","Q","R","S","T","U","V","W","X","Y","Z">>
LowerCase == <<"a","b","c","d","e","f","g","h","i","j","k","l","m",
               "n","o","p","q","r","s","t","u","v","w","x","y","z">>

LowerChar(c) ==
    IF \E i \in DOMAIN UpperCase : UpperCase[i] = c
    THEN LowerCase[CHOOSE i \in DOMAIN UpperCase : UpperCase[i] = c]
    ELSE c

Lower(s) == [i \in DOMAIN s |-> LowerChar(s[i])]

\* Python's `needle in s` on strings.
Contains(s, needle) ==
    \E i \in 1..(Len(s) - Len(needle) + 1) : SubSeq(s, i, i + Len(needle) - 1) = needle

StartsWith(s, needle) ==
    Len(s) >= Len(needle) /\ SubSeq(s, 1, Len(needle)) = needle

\* SQL: s ILIKE '%needle%'; NULL ILIKE ... is not true.
ILIKE(s, needle) == s # None /\ Contains(Lower(s.value), Lower(needle))

admin == <<"a","d","m","i","n">>
instructor == <<"i","n","s","t","r","u","c","t","o","r">>
teacher == <<"t","e","a","c","h","e","r">>
whiteboard == <<"w","h","i","t","e","b","o","a","r","d">>

\* canvas_course_role values of the users rows.
Roles ==
    { PyStr(<<"L","e","a","r","n","e","r">>),
      PyStr(<<"T","e","a","c","h","e","r">>),
      PyStr(<<"I","N","S","T","R","U","C","T","O","R">>),
      PyStr(<<"A","d","m","i","n","i","s","t","r","a","t","o","r">>),
      None }

(***************************************************************************)
(* The database seen by can_access_whiteboard.                             *)
(***************************************************************************)
UserRows == [id : UserKeys, canvas_course_role : Roles]
WhiteboardRows == [id : WhiteboardKeys, course_id : CourseIds, deleted_at : {None, PyInt(1)}]

AtMostOne(S) == {{}} \cup {{r} : r \in S}

\* whiteboard_users rows reference existing users and whiteboards rows.
MemberRows(us, ws) == {[whiteboard_id |-> w.id, user_id |-> u.id] : u \in us, w \in ws}

\* SELECT COUNT(DISTINCT(u.id)) ... with the optional ' AND w.deleted_at IS NULL'.
SelectCount(params, not_deleted) ==
    Cardinality({ r[1].id : r \in
        { p \in users \X whiteboards :
            LET u == p[1]
                w == p[2]
            IN  /\ w.id = params.whiteboard_id
                /\ u.id = params.user_id
                /\ w.course_id = params.course_id
                /\ \/ u.id \in { m.user_id : m \in { x \in whiteboard_users :
                                                    x.whiteboard_id = params.whiteboard_id } }
                   \/ ILIKE(u.canvas_course_role, admin)
                   \/ ILIKE(u.canvas_course_role, instructor)
                   \/ ILIKE(u.canvas_course_role, teacher)
                /\ (not_deleted => w.deleted_at = None) } })

(***************************************************************************)
(* can_access_whiteboard; queries counts the statements it executes.       *)
(***************************************************************************)
Access(v, q) == [raised |-> "none", value |-> v, queries |-> q]

can_access_whiteboard_admin_first(user, whiteboard_id) ==
    IF is_admin(user) THEN Access(TRUE, 0)
    ELSE IF ~FEATURE_FLAG_WHITEBOARDS THEN Access(FALSE, 0)
    ELSE LET user_id == _get_user_id(user) IN
         IF Truthy(user_id)
         THEN Access(SelectCount([course_id |-> user.course.id, user_id |-> user_id,
                                  whiteboard_id |-> whiteboard_id],
                                 ~is_teaching(user)) > 0, 1)
         ELSE Access(FALSE, 0)

can_access_whiteboard_query_first(user, whiteboard_id) ==
    IF ~FEATURE_FLAG_WHITEBOARDS THEN Access(FALSE, 0)
    ELSE LET user_id == _get_user_id(user) IN
         IF Truthy(user_id)
         THEN Access(is_admin(user) \/
                     SelectCount([course_id |-> user.course.id, user_id |-> user_id,
                                  whiteboard_id |-> whiteboard_id],
                                 ~is_teaching(user)) > 0, 1)
         ELSE Access(is_admin(user), 0)

can_access_whiteboard_deleted_for_all(user, whiteboard_id) ==
    IF ~FEATURE_FLAG_WHITEBOARDS THEN Access(FALSE, 0)
    ELSE IF is_admin(user) THEN Access(TRUE, 0)
    ELSE LET user_id == _get_user_id(user) IN
         IF Truthy(user_id)
         THEN Access(SelectCount([course_id |-> user.course.id, user_id |-> user_id,
                                  whiteboard_id |-> whiteboard_id],
                                 FALSE) > 0, 1)
         ELSE Access(FALSE, 0)

can_access_whiteboard(user, whiteboard_id) ==
    IF ~FEATURE_FLAG_WHITEBOARDS THEN Access(FALSE, 0)
    ELSE IF is_admin(user) THEN Access(TRUE, 0)
    ELSE LET user_id == _get_user_id(user) IN
         IF Truthy(user_id)
         THEN Access(SelectCount([course_id |-> user.course.id, user_id |-> user_id,
                                  whiteboard_id |-> whiteboard_id],
                                 ~is_teaching(user)) > 0, 1)
         ELSE Access(FALSE, 0)

(***************************************************************************)
(* _filter_per_feature_flag, activities_type_enums, assets_type_enums      *)
(***************************************************************************)
NoWhiteboard(enum) == ~Contains(enum, whiteboard)
NotWhiteboardPrefix(enum) == ~StartsWith(enum, whiteboard)

filter_by_prefix(enums) ==
    IF FEATURE_FLAG_WHITEBOARDS THEN enums ELSE SelectSeq(enums, NotWhiteboardPrefix)

_filter_per_feature_flag(enums) ==
    IF FEATURE_FLAG_WHITEBOARDS THEN enums ELSE SelectSeq(enums, NoWhiteboard)

activities_type_enums == _filter_per_feature_flag(activities_type)

assets_type_enums == _filter_per_feature_flag(assets_type)

(***************************************************************************)
(* The request guards.  The wrapped handler is opaque: a guard's outcome   *)
(* records whether it ran and which response the caller gets.              *)
(***************************************************************************)
HandlerResponse == [kind |-> "handler"]
Unauthorized == [kind |-> "unauthorized"]   \* app.login_manager.unauthorized()
NotFound == [status |-> 404]

Guard(condition, rejection) ==
    IF condition THEN [handler_ran |-> TRUE, response |-> HandlerResponse]
    ELSE [handler_ran |-> FALSE, response |-> rejection]

admin_required == Guard(current_user.is_admin, Unauthorized)

feature_flag_whiteboards == Guard(FEATURE_FLAG_WHITEBOARDS, Unauthorized)

teacher_required_unauthenticated == Guard(current_user.is_admin \/ current_user.is_teaching, Unauthorized)

teacher_required ==
    Guard(current_user.is_authenticated /\ (current_user.is_admin \/ current_user.is_teaching),
          Unauthorized)

\* dict.get(key)
get(mapping, key) == IF key \in DOMAIN mapping THEN mapping[key] ELSE None

\* args[0].get('whiteboardId') if len(args) else None
whiteboard_id_of(args) == IF Len(args) # 0 THEN get(args[1], "whiteboardId") ELSE None

whiteboard_access_runs_handler_first(args) ==
    LET access == can_access_whiteboard(current_user, whiteboard_id_of(args))
    IN  [handler_ran |-> TRUE,
         response |-> IF access.value THEN HandlerResponse ELSE NotFound,
         whiteboard_id |-> whiteboard_id_of(args), access |-> access]

whiteboard_access_required(args) ==
    LET access == can_access_whiteboard(current_user, whiteboard_id_of(args))
    IN  Guard(access.value, NotFound)
            @@ [whiteboard_id |-> whiteboard_id_of(args), access |-> access]

(***************************************************************************)
(* start_login_session                                                     *)
(***************************************************************************)
\* flask_login.login_user: refuses an inactive user, else installs it as current_user.
login_user(login_session) == login_session.is_active

Cookie(key, value) == [key |-> key, value |-> value, samesite |-> "None", secure |-> TRUE]

\* Canvas.find_by_domain
find_by_domain(canvas_api_domain) ==
    CHOOSE c \in canvas : c.canvas_api_domain = canvas_api_domain

LoginSuccess(session, redirect_path) ==
    LET base == config.VUE_LOCALHOST_BASE_URL
        response ==
            IF Truthy(redirect_path)
            THEN [kind |-> "redirect",
                  location |-> <<IF Truthy(base) THEN Str(base) ELSE "", Str(redirect_path)>>]
            ELSE [kind |-> "json", status |-> 200, body |-> [to_api_json |-> session.user_id]]
        canvas_api_domain == session.course.canvas_api_domain
        canvas_row == find_by_domain(canvas_api_domain)
        canvas_course_id == session.course.canvas_course_id
    IN  response @@
        [cookies |-> << Cookie(<<canvas_api_domain, "|", Str(PyInt(canvas_course_id))>>,
                               Str(session.user_id)),
                        Cookie(<<canvas_api_domain, "_supports_custom_messaging">>,
                               Str([type |-> "bool",
                                    value |-> canvas_row.supports_custom_messaging])) >>]

LoginFailure(login_session, tool_id) ==
    IF Truthy(tool_id)
    THEN [raised |-> "UnauthorizedRequestError",
          message |-> <<"Unauthorized user during ", Str(tool_id), " LTI launch (user_id = ",
                        Str(login_session.user_id), ")">>]
    ELSE Returned([kind |-> "json", status |-> 403, cookies |-> <<>>,
                   body |-> [message |-> <<"User ", Str(login_session.user_id),
                                           " failed to authenticate.">>]])

start_login_session_ignores_login_user(login_session, redirect_path, tool_id) ==
    IF login_session.is_authenticated
    THEN Returned(LoginSuccess(login_session, redirect_path))
    ELSE LoginFailure(login_session, tool_id)

start_login_session(login_session, redirect_path, tool_id) ==
    LET logged_in == login_user(login_session)
        session == IF logged_in THEN login_session ELSE current_user
        authenticated == logged_in /\ session.is_authenticated
    IN  IF authenticated
        THEN Returned(LoginSuccess(session, redirect_path))
        ELSE LoginFailure(login_session, tool_id)

(***************************************************************************)
(* Operations as actions.  Each serves the pending call and records its    *)
(* arguments and outcome in last.                                          *)
(***************************************************************************)
ambient == <<config, users, whiteboards, whiteboard_users, canvas,
             activities_type, assets_type, call>>

CanUpdateAsset ==
    /\ call.op = "can_update_asset"
    /\ last' = call @@ [result |-> can_update_asset(call.user, call.asset)]
    /\ UNCHANGED <<ambient, current_user>>

CanViewAsset ==
    /\ call.op = "can_view_asset"
    /\ last' = call @@ [result |-> can_view_asset(call.asset, call.user)]
    /\ UNCHANGED <<ambient, current_user>>

CanAccessWhiteboard ==
    /\ call.op = "can_access_whiteboard"
    /\ last' = call @@ [result |-> can_access_whiteboard(call.user, call.whiteboard_id)]
    /\ UNCHANGED <<ambient, current_user>>

AdminRequired ==
    /\ call.op = "admin_required"
    /\ last' = call @@ [result |-> admin_required]
    /\ UNCHANGED <<ambient, current_user>>

FeatureFlagWhiteboards ==
    /\ call.op = "feature_flag_whiteboards"
    /\ last' = call @@ [result |-> feature_flag_whiteboards]
    /\ UNCHANGED <<ambient, current_user>>

TeacherRequired ==
    /\ call.op = "teacher_required"
    /\ last' = call @@ [result |-> teacher_required]
    /\ UNCHANGED <<ambient, current_user>>

WhiteboardAccessRequired ==
    /\ call.op = "whiteboard_access_required"
    /\ last' = call @@ [result |-> whiteboard_access_required(call.args)]
    /\ UNCHANGED <<ambient, current_user>>

ActivitiesTypeEnums ==
    /\ call.op = "activities_type_enums"
    /\ last' = call @@ [result |-> activities_type_enums]
    /\ UNCHANGED <<ambient, current_user>>

AssetsTypeEnums ==
    /\ call.op = "assets_type_enums"
    /\ last' = call @@ [result |-> assets_type_enums]
    /\ UNCHANGED <<ambient, current_user>>

StartLoginSession ==
    /\ call.op = "start_login_session"
    /\ current_user' = IF login_user(call.login_session) THEN call.login_session
                       ELSE current_user
    /\ last' = call @@ [result |-> start_login_session(call.login_session,
                                                       call.redirect_path, call.tool_id)]
    /\ UNCHANGED ambient

(***************************************************************************)
(* The calls a request can make.                                           *)
(***************************************************************************)
\* Positional arguments of a wrapped handler: none, or one mapping.
HandlerArgs ==
    {<<>>, << [assetId |-> PyInt(1)] >>}
    \cup { << [whiteboardId |-> w] >> : w \in WhiteboardIdValues }

Domains == {"bcourses.berkeley.edu", "ucberkeley.beta.instructure.com"}

LoginCourses ==
    {[id |-> c, canvas_api_domain |-> d, canvas_course_id |-> 1000 + c] :
        c \in CourseIds, d \in Domains}

\* The login_session argument: a LoginSession that may be inactive or unauthenticated.
LoginArgs ==
    [type : {"LoginSession"}, user_id : UserIdValues, course : LoginCourses,
     is_admin : {FALSE}, is_teaching : {FALSE}, is_authenticated : BOOLEAN,
     is_active : BOOLEAN, user : [assets : {{}}]]

RedirectPaths == {None, PyStr(""), PyStr("/assets")}
ToolIds == {None, PyStr(""), PyStr("asset_library")}

AssetCalls ==
    [op : {"can_update_asset", "can_view_asset"}, user : UserArgs, asset : Assets]

WhiteboardCalls ==
    [op : {"can_access_whiteboard"},
     user : {u \in UserArgs : Truthy(u) => OwnAssets(u) = {}},
     whiteboard_id : WhiteboardIdValues]

GuardCalls ==
    [op : {"admin_required", "feature_flag_whiteboards", "teacher_required"}]
    \cup [op : {"whiteboard_access_required"}, args : HandlerArgs]

LoginCalls ==
    [op : {"start_login_session"}, login_session : LoginArgs,
     redirect_path : RedirectPaths, tool_id : ToolIds]

EnumCalls == [op : {"activities_type_enums", "assets_type_enums"}]

(***************************************************************************)
(* Initial states.  The module creates no entity: the ambient state of a   *)
(* request is whatever the collaborators left, drawn here from bounded     *)
(* sets.  Each specification varies the state its operations read.         *)
(***************************************************************************)
NoCall == [op |-> "none"]

Anonymous ==
    [type |-> "LoginSession", user_id |-> None, course |-> [id |-> 1],
     is_admin |-> FALSE, is_teaching |-> FALSE, is_authenticated |-> FALSE,
     user |-> [assets |-> {}]]

Configs == [FEATURE_FLAG_WHITEBOARDS : BOOLEAN, VUE_LOCALHOST_BASE_URL : {None}]

InitDatabase(roles) ==
    /\ users \in AtMostOne({u \in UserRows : u.canvas_course_role \in roles})
    /\ whiteboards \in AtMostOne(WhiteboardRows)
    /\ whiteboard_users \in AtMostOne(MemberRows(users, whiteboards))

NoDatabase ==
    /\ users = {}
    /\ whiteboards = {}
    /\ whiteboard_users = {}

NoRegistries ==
    /\ activities_type = <<>>
    /\ assets_type = <<>>

\* Asset predicates: the session user's asset list varies.
InitAssets ==
    /\ config \in {c \in Configs : c.FEATURE_FLAG_WHITEBOARDS}
    /\ current_user \in {s \in LoginSessions :
            /\ s.is_authenticated /\ ~s.is_admin /\ ~s.is_teaching
            /\ s.user_id = PyInt(1) /\ s.course.id = 1}
    /\ NoDatabase
    /\ canvas = {}
    /\ NoRegistries
    /\ call \in AssetCalls
    /\ last = NoCall

\* The whiteboard predicate: the flag and the database vary.
InitWhiteboard ==
    /\ config \in Configs
    /\ current_user = Anonymous
    /\ InitDatabase(Roles)
    /\ canvas = {}
    /\ NoRegistries
    /\ call \in WhiteboardCalls
    /\ last = NoCall

\* The guards: the flag, the session and the database vary.
InitGuards ==
    /\ config \in Configs
    /\ current_user \in {s \in LoginSessions : s.user.assets = {}}
    /\ InitDatabase(Roles)
    /\ canvas = {}
    /\ NoRegistries
    /\ call \in GuardCalls
    /\ last = NoCall

\* Login: the configuration and the canvas table vary; courses.canvas_api_domain
\* references canvas, so every domain has its row.
InitLogin ==
    /\ config \in [FEATURE_FLAG_WHITEBOARDS : {TRUE},
                   VUE_LOCALHOST_BASE_URL : {None, PyStr("http://localhost:8080")}]
    /\ current_user \in {Anonymous, [Anonymous EXCEPT !.user_id = PyInt(1),
                                                      !.is_authenticated = TRUE]}
    /\ NoDatabase
    /\ canvas \in {{[canvas_api_domain |-> d, supports_custom_messaging |-> f[d]] : d \in Domains} :
                       f \in [Domains -> BOOLEAN]}
    /\ NoRegistries
    /\ call \in LoginCalls
    /\ last = NoCall

\* The type enums: the flag and the two registries vary.
Tags ==
    { <<"f","i","l","e">>,
      whiteboard,
      <<"g","e","t","_">> \o whiteboard \o <<"s">>,
      SubSeq(whiteboard, 1, Len(whiteboard) - 1),
      <<"W">> \o Tail(whiteboard) }

EnumLists == UNION {[1..n -> Tags] : n \in 0..MaxEnums}

InitEnums ==
    /\ config \in Configs
    /\ current_user = Anonymous
    /\ NoDatabase
    /\ canvas = {}
    /\ activities_type \in EnumLists
    /\ assets_type \in EnumLists
    /\ call \in EnumCalls
    /\ last = NoCall

(***************************************************************************)
(* The specification: a request starts in any of the ambient states above  *)
(* and serves its call.                                                    *)
(***************************************************************************)
Init ==
    \/ InitAssets
    \/ InitWhiteboard
    \/ InitGuards
    \/ InitLogin
    \/ InitEnums

Next ==
    \/ AdminRequired
    \/ FeatureFlagWhiteboards
    \/ TeacherRequired
    \/ WhiteboardAccessRequired
    \/ ActivitiesTypeEnums
    \/ AssetsTypeEnums
    \/ CanUpdateAsset
    \/ CanViewAsset
    \/ CanAccessWhiteboard
    \/ StartLoginSession

Spec == Init /\ [][Next]_vars

(***************************************************************************)
(* Vocabulary of the properties below.                                     *)
(***************************************************************************)
Served(op) == last.op = op

IsUser(user) == user # None

\* The id the user object carries: .id of a User, .user_id of a LoginSession.
IdAttribute(user) == IF user.type = "User" THEN user.id ELSE user.user_id

HasResolvableId(user) ==
    IsUser(user) /\ IdAttribute(user) # None /\ IdAttribute(user) # PyInt(0)

\* The stored whiteboard a whiteboardId names, if any.
WhiteboardsNamed(whiteboard_id) == {w \in whiteboards : w.id = whiteboard_id}

IsMember(user, whiteboard_id) ==
    \E m \in whiteboard_users :
        m.whiteboard_id = whiteboard_id /\ m.user_id = IdAttribute(user)

HasTeachingRoleRow(user) ==
    \E u \in users :
        /\ u.id = IdAttribute(user)
        /\ u.canvas_course_role # None
        /\ \E needle \in {admin, instructor, teacher} :
               Contains(Lower(u.canvas_course_role.value), needle)

(***************************************************************************)
(* C1 (as stated): cross-course access is denied to every user, whatever   *)
(* the role: when the asset's or whiteboard's course differs from the      *)
(* user's course, can_view_asset, can_update_asset and                     *)
(* can_access_whiteboard all return false.                                 *)
(***************************************************************************)
C1_CrossCourseAlwaysDenied ==
    /\ (Served("can_update_asset") \/ Served("can_view_asset"))
       /\ IsUser(last.user) /\ last.user.course.id # last.asset.course_id
       => ReturnedFalse(last.result)
    /\ Served("can_access_whiteboard") /\ IsUser(last.user)
       /\ (\E w \in WhiteboardsNamed(last.whiteboard_id) : w.course_id # last.user.course.id)
       => ReturnedFalse(last.result)

(***************************************************************************)
(* C1 (amended): cross-course access is denied by can_update_asset to      *)
(* every user, and by can_view_asset and can_access_whiteboard to every    *)
(* user whose admin flag is not set.                                       *)
(***************************************************************************)
C1_CrossCourseDeniedUnlessAdmin ==
    /\ Served("can_update_asset")
       /\ IsUser(last.user) /\ last.user.course.id # last.asset.course_id
       => ReturnedFalse(last.result)
    /\ Served("can_view_asset")
       /\ IsUser(last.user) /\ ~last.user.is_admin
       /\ last.user.course.id # last.asset.course_id
       => ReturnedFalse(last.result)
    /\ Served("can_access_whiteboard")
       /\ IsUser(last.user) /\ ~last.user.is_admin
       /\ (\E w \in WhiteboardsNamed(last.whiteboard_id) : w.course_id # last.user.course.id)
       => ReturnedFalse(last.result)

\* A teaching member of a live whiteboard of another course was denied.
C1_Witness ==
    /\ Served("can_access_whiteboard")
    /\ FEATURE_FLAG_WHITEBOARDS
    /\ IsUser(last.user) /\ ~last.user.is_admin /\ last.user.is_teaching
    /\ IsMember(last.user, last.whiteboard_id)
    /\ HasTeachingRoleRow(last.user)
    /\ \E w \in WhiteboardsNamed(last.whiteboard_id) :
           w.course_id # last.user.course.id /\ w.deleted_at = None
    /\ ReturnedFalse(last.result)

(***************************************************************************)
(* C2: for a user whose admin flag is set, can_view_asset returns true for *)
(* every asset, and can_access_whiteboard returns true for every           *)
(* whiteboard id when the feature flag is on, without executing the query. *)
(***************************************************************************)
C2_AdminBypass ==
    /\ Served("can_view_asset") /\ IsUser(last.user) /\ last.user.is_admin
       => ReturnedTrue(last.result)
    /\ Served("can_access_whiteboard") /\ IsUser(last.user) /\ last.user.is_admin
       /\ FEATURE_FLAG_WHITEBOARDS
       => ReturnedTrue(last.result) /\ last.result.queries = 0

\* An admin of another course, not a member, was admitted to a deleted whiteboard.
C2_Witness ==
    /\ Served("can_access_whiteboard")
    /\ FEATURE_FLAG_WHITEBOARDS
    /\ IsUser(last.user) /\ last.user.is_admin
    /\ ~IsMember(last.user, last.whiteboard_id)
    /\ \E w \in WhiteboardsNamed(last.whiteboard_id) :
           w.course_id # last.user.course.id /\ w.deleted_at # None
    /\ ReturnedTrue(last.result) /\ last.result.queries = 0

(***************************************************************************)
(* C3: can_access_whiteboard fails closed: with the feature flag off it    *)
(* returns false for every user and whiteboard id; with the flag on, for a *)
(* non-admin whose user id cannot be resolved, it returns false.           *)
(***************************************************************************)
C3_FailsClosed ==
    Served("can_access_whiteboard") =>
        /\ ~FEATURE_FLAG_WHITEBOARDS => ReturnedFalse(last.result)
        /\ FEATURE_FLAG_WHITEBOARDS
           /\ ~(IsUser(last.user) /\ last.user.is_admin)
           /\ ~HasResolvableId(last.user)
           => ReturnedFalse(last.result)

\* With the flag off, an admin who is also a teaching member was denied.
C3_Witness ==
    /\ Served("can_access_whiteboard")
    /\ ~FEATURE_FLAG_WHITEBOARDS
    /\ IsUser(last.user) /\ last.user.is_admin /\ last.user.is_teaching
    /\ IsMember(last.user, last.whiteboard_id)
    /\ \E w \in WhiteboardsNamed(last.whiteboard_id) : w.course_id = last.user.course.id
    /\ ReturnedFalse(last.result)

(***************************************************************************)
(* C4: can_update_asset(user, asset) is true if and only if the asset's    *)
(* course equals the user's course and the user is teaching, or admin, or  *)
(* has a resolved id among the ids of the asset's owners.                  *)
(***************************************************************************)
C4_CanUpdateAssetIff ==
    Served("can_update_asset") =>
        (ReturnedTrue(last.result) <=>
            /\ IsUser(last.user)
            /\ last.user.course.id = last.asset.course_id
            /\ \/ last.user.is_teaching
               \/ last.user.is_admin
               \/ IdAttribute(last.user) \in {o.id : o \in last.asset.users})

\* A session user with no role, owner of an asset of its course, may update it.
C4_Witness ==
    /\ Served("can_update_asset")
    /\ IsUser(last.user) /\ last.user.type = "LoginSession"
    /\ ~last.user.is_teaching /\ ~last.user.is_admin
    /\ last.user.course.id = last.asset.course_id
    /\ last.user.user_id \in {o.id : o \in last.asset.users}
    /\ ReturnedTrue(last.result)

(***************************************************************************)
(* C5: for a non-admin user, can_view_asset is false when user is None or  *)
(* the courses differ; otherwise it is true if and only if the asset is    *)
(* visible or its id is in the asset list of the session user              *)
(* (current_user), whatever the assets of the user parameter.              *)
(***************************************************************************)
C5_CanViewAssetNonAdmin ==
    Served("can_view_asset") /\ ~(IsUser(last.user) /\ last.user.is_admin) =>
        IF ~IsUser(last.user) THEN ReturnedFalse(last.result)
        ELSE IF last.user.course.id # last.asset.course_id THEN ReturnedFalse(last.result)
        ELSE ReturnedTrue(last.result) <=>
                \/ last.asset.visible
                \/ \E a \in current_user.user.assets : a.id = last.asset.id

\* A hidden asset the user parameter does not own was shown, the session user owning it.
C5_Witness ==
    /\ Served("can_view_asset")
    /\ IsUser(last.user) /\ ~last.user.is_admin
    /\ last.user.course.id = last.asset.course_id
    /\ ~last.asset.visible
    /\ \E a \in current_user.user.assets : a.id = last.asset.id
    /\ ~\E a \in OwnAssets(last.user) : a.id = last.asset.id
    /\ ReturnedTrue(last.result)

(***************************************************************************)
(* C6 (as stated): with the feature flag on, for a soft-deleted            *)
(* whiteboard, a teaching user is allowed access and a non-teaching,       *)
(* non-admin recorded member is denied.  A teaching user is read in the    *)
(* narrowest sense: the teaching flag is set and the user's id resolves to *)
(* a users row whose course role is a teaching role.                       *)
(***************************************************************************)
TeachingUser(user) ==
    IsUser(user) /\ user.is_teaching /\ HasResolvableId(user) /\ HasTeachingRoleRow(user)

DeletedWhiteboardRequested ==
    /\ Served("can_access_whiteboard")
    /\ FEATURE_FLAG_WHITEBOARDS
    /\ \E w \in WhiteboardsNamed(last.whiteboard_id) : w.deleted_at # None

MemberWithoutRoleDenied ==
    IsUser(last.user) /\ ~last.user.is_teaching /\ ~last.user.is_admin
    /\ IsMember(last.user, last.whiteboard_id)
    => ReturnedFalse(last.result)

C6_DeletedTeachingAllowedMemberDenied ==
    DeletedWhiteboardRequested =>
        /\ TeachingUser(last.user) => ReturnedTrue(last.result)
        /\ MemberWithoutRoleDenied

(***************************************************************************)
(* C6 (amended): with the feature flag on, for a soft-deleted whiteboard,  *)
(* a teaching user is allowed access when the whiteboard belongs to the    *)
(* user's course (a teaching non-admin user of another course is denied);  *)
(* a non-teaching, non-admin recorded member is denied.                    *)
(***************************************************************************)
C6_DeletedTeachingSameCourseAllowed ==
    DeletedWhiteboardRequested =>
        /\ TeachingUser(last.user) =>
               IF \E w \in WhiteboardsNamed(last.whiteboard_id) :
                      w.course_id = last.user.course.id
               THEN ReturnedTrue(last.result)
               ELSE ~last.user.is_admin => ReturnedFalse(last.result)
        /\ MemberWithoutRoleDenied

\* A member with no role, of the whiteboard's course, was denied the deleted whiteboard.
C6_Witness ==
    /\ Served("can_access_whiteboard")
    /\ FEATURE_FLAG_WHITEBOARDS
    /\ IsUser(last.user) /\ ~last.user.is_teaching /\ ~last.user.is_admin
    /\ IsMember(last.user, last.whiteboard_id)
    /\ \E w \in WhiteboardsNamed(last.whiteboard_id) :
           w.deleted_at # None /\ w.course_id = last.user.course.id
    /\ ReturnedFalse(last.result)
    /\ last.result.queries = 1

(***************************************************************************)
(* C7: a handler wrapped by whiteboard_access_required runs only if        *)
(* can_access_whiteboard(current_user, whiteboard id) is true, the id      *)
(* being key 'whiteboardId' of the first positional argument, or None      *)
(* without positional argument; on denial the handler does not run and the *)
(* result is the bare {'status': 404}, not the unauthorized response.      *)
(***************************************************************************)
RequestedWhiteboardId(args) ==
    IF args = <<>> THEN None
    ELSE IF "whiteboardId" \in DOMAIN args[1] THEN args[1].whiteboardId ELSE None

C7_WhiteboardAccessRequired ==
    Served("whiteboard_access_required") =>
        LET allowed == can_access_whiteboard(current_user,
                                             RequestedWhiteboardId(last.args)).value
        IN  /\ last.result.handler_ran <=> allowed
            /\ last.result.handler_ran => last.result.response = HandlerResponse
            /\ ~last.result.handler_ran =>
                   /\ last.result.response = [status |-> 404]
                   /\ last.result.response # Unauthorized

\* A teaching session of the whiteboard's course, calling without arguments, got the 404.
C7_Witness ==
    /\ Served("whiteboard_access_required")
    /\ FEATURE_FLAG_WHITEBOARDS
    /\ last.args = <<>>
    /\ current_user.is_teaching /\ ~current_user.is_admin
    /\ HasTeachingRoleRow(current_user)
    /\ \E w \in whiteboards : w.course_id = current_user.course.id
    /\ ~last.result.handler_ran
    /\ last.result.response = [status |-> 404]

(***************************************************************************)
(* C8: under admin_required, teacher_required and                          *)
(* feature_flag_whiteboards the handler runs if and only if the guard's    *)
(* condition holds (admin flag; authenticated and admin or teaching; the   *)
(* whiteboards flag); otherwise it does not run and the caller gets the    *)
(* standard unauthorized response.                                         *)
(***************************************************************************)
GuardOutcome(condition) ==
    /\ last.result.handler_ran <=> condition
    /\ last.result.handler_ran => last.result.response = HandlerResponse
    /\ ~last.result.handler_ran => last.result.response = [kind |-> "unauthorized"]

C8_GuardsRunHandlerIff ==
    /\ Served("admin_required") => GuardOutcome(current_user.is_admin)
    /\ Served("teacher_required") =>
           GuardOutcome(/\ current_user.is_authenticated
                        /\ (current_user.is_admin \/ current_user.is_teaching))
    /\ Served("feature_flag_whiteboards") => GuardOutcome(config.FEATURE_FLAG_WHITEBOARDS)

\* An unauthenticated session with the teaching flag was rejected by teacher_required.
C8_Witness ==
    /\ Served("teacher_required")
    /\ ~current_user.is_authenticated /\ current_user.is_teaching
    /\ ~last.result.handler_ran
    /\ last.result.response = Unauthorized

(***************************************************************************)
(* C9: start_login_session has exactly three outcomes: on success a        *)
(* response (a redirect when redirect_path is given, else the profile      *)
(* JSON) carrying both identity cookies; on failure with tool_id the       *)
(* unauthorized-request error and no response; on failure without tool_id  *)
(* a 403 response whose message contains the user id.  Cookies are set     *)
(* only on success.  (Given: not None and not empty.)                      *)
(***************************************************************************)
Given(v) == v # None /\ v # PyStr("")

LoginSucceeds(login_session) == login_session.is_active /\ login_session.is_authenticated

IdentityCookieKeys(login_session) ==
    { <<login_session.course.canvas_api_domain, "|",
        ToString(login_session.course.canvas_course_id)>>,
      <<login_session.course.canvas_api_domain, "_supports_custom_messaging">> }

C9_LoginOutcomes ==
    Served("start_login_session") =>
        LET r == last.result
            ls == last.login_session
        IN  IF LoginSucceeds(ls)
            THEN /\ r.raised = "none"
                 /\ r.value.kind = (IF Given(last.redirect_path) THEN "redirect" ELSE "json")
                 /\ {c.key : c \in Range(r.value.cookies)} = IdentityCookieKeys(ls)
                 /\ Len(r.value.cookies) = 2
            ELSE IF Given(last.tool_id)
            THEN /\ r.raised = "UnauthorizedRequestError"
                 /\ "value" \notin DOMAIN r
            ELSE /\ r.raised = "none"
                 /\ r.value.status = 403
                 /\ \E i \in DOMAIN r.value.body.message :
                        r.value.body.message[i] = Str(ls.user_id)
                 /\ r.value.cookies = <<>>

\* An inactive but authenticated session, launched from a tool, raised the error.
C9_Witness ==
    /\ Served("start_login_session")
    /\ ~last.login_session.is_active /\ last.login_session.is_authenticated
    /\ Given(last.tool_id) /\ Given(last.redirect_path)
    /\ last.result.raised = "UnauthorizedRequestError"

(***************************************************************************)
(* C10: activities_type_enums() and assets_type_enums(): with the          *)
(* whiteboards flag disabled the result holds exactly the registered tags  *)
(* that do not contain "whiteboard"; with the flag enabled it equals the   *)
(* registered list.                                                        *)
(***************************************************************************)
Registered ==
    IF Served("activities_type_enums") THEN activities_type ELSE assets_type

C10_TypeEnumsFiltered ==
    Served("activities_type_enums") \/ Served("assets_type_enums") =>
        IF FEATURE_FLAG_WHITEBOARDS
        THEN last.result = Registered
        ELSE \A tag \in Tags \cup Range(last.result) :
                tag \in Range(last.result) <=>
                    tag \in Range(Registered) /\ ~Contains(tag, whiteboard)

\* With the flag off, a tag with "whiteboard" inside was dropped and a near miss kept.
C10_Witness ==
    /\ Served("activities_type_enums")
    /\ ~FEATURE_FLAG_WHITEBOARDS
    /\ \E tag \in Range(activities_type) :
           Contains(tag, whiteboard) /\ ~StartsWith(tag, whiteboard)
           /\ tag \notin Range(last.result)
    /\ \E tag \in Range(activities_type) :
           Contains(Lower(tag), whiteboard) /\ tag \in Range(last.result)

====
